---- MODULE Spec2Model ----
(***************************************************************************)
(* A model of the search_sort crate: src/src/sort.rs (test, bubble,        *)
(* quick_partition, quick, merge) and src/src/search.rs (linear, binary,   *)
(* binary_first, jump_step, jump).                                         *)
(*                                                                         *)
(* Slices are sequences; the source's 0-based indices are kept through the *)
(* accessors At / Swap / Put / Range.  A panic of the Rust code (index out *)
(* of bounds, a range whose start exceeds its end, clone_from_slice on     *)
(* slices of different lengths, unwrap of None, usize underflow) is an     *)
(* explicit outcome of the operator that models the function.              *)
(*                                                                         *)
(* Sort elements are pairs <<key, original index>> whose Ord looks at the  *)
(* key only; search elements are integers.                                 *)
(***************************************************************************)
EXTENDS Integers, Sequences, FiniteSets, TLC

\* Bounds of the model.
MaxLen == 4          \* longest slice handed to a sort function
MaxKey == 3          \* keys are 1..MaxKey
MaxSearchLen == 9    \* longest ascending slice handed to a search function

Keys == 1..MaxKey

VARIABLES
    op,         \* the function that was called ("none" before the call)
    pc,         \* "idle" | "loop" | "break" | "done" | "panic"
    input,      \* the slice as it was on entry
    slice,      \* the slice (mutated in place by the sort functions)
    value,      \* search: the value looked for
    step,       \* search: the step handed to jump_step
    result,     \* search: the Option<usize> returned; quick_partition: the index
    lo, hi, pivot, equal,   \* quick_partition's locals
    iters,      \* quick_partition: outer loop iterations started so far
    pos, found, \* jump_step's locals when it returned
    scan        \* jump_step: whether it reached its final linear scan

vars == <<op, pc, input, slice, value, step, result, lo, hi, pivot, equal, iters,
          pos, found, scan>>

-----------------------------------------------------------------------------
\* Slices with the source's 0-based indexing.

At(s, i) == s[i + 1]
Put(s, i, x) == [s EXCEPT ![i + 1] = x]
Swap(s, i, j) == [s EXCEPT ![i + 1] = s[j + 1], ![j + 1] = s[i + 1]]
\* &s[a..b]
Range(s, a, b) == SubSeq(s, a + 1, b)
\* &s[a..b] panics unless a <= b <= len
RangeOk(s, a, b) == a <= b /\ b <= Len(s)

\* The Ord of a sort element: the key alone.
Key(e) == e[1]

cmp(a, b) == IF a < b THEN "Less" ELSE IF a = b THEN "Equal" ELSE "Greater"

\* Option<usize>, and the panic outcome.
None == [tag |-> "None", idx |-> 0]
Some(i) == [tag |-> "Some", idx |-> i]
Panic == [tag |-> "Panic", idx |-> 0]

\* The outcome of a sort function: the slice it leaves, or a panic.
Ok(s) == [panic |-> FALSE, slice |-> s]
Panicked(s) == [panic |-> TRUE, slice |-> s]

-----------------------------------------------------------------------------
\* sort.rs

RECURSIVE test_from(_, _)
test_from(s, i) ==
    IF i >= Len(s) THEN TRUE
    ELSE IF Key(At(s, i - 1)) > Key(At(s, i)) THEN FALSE
    ELSE test_from(s, i + 1)

test(s) == IF Len(s) < 2 THEN TRUE ELSE test_from(s, 1)

is_sorted(s) == test(s)

\* for i in 1..n { if slice[i - 1] > slice[i] { swap; newn = i } }
RECURSIVE bubble_pass(_, _, _, _)
bubble_pass(s, i, n, newn) ==
    IF i >= n THEN [slice |-> s, newn |-> newn]
    ELSE IF Key(At(s, i - 1)) > Key(At(s, i))
         THEN bubble_pass(Swap(s, i - 1, i), i + 1, n, i)
         ELSE bubble_pass(s, i + 1, n, newn)

\* Mutant of bubble_while: the next pass stops one short of the last swap.
RECURSIVE bubble_while_short(_, _)
bubble_while_short(s, n) ==
    IF n > 1
    THEN LET r == bubble_pass(s, 1, n, 0)
         IN  bubble_while_short(r.slice, r.newn - 1)
    ELSE s

\* while n > 1 { ...; n = newn }
RECURSIVE bubble_while(_, _)
bubble_while(s, n) ==
    IF n > 1
    THEN LET r == bubble_pass(s, 1, n, 0) IN bubble_while(r.slice, r.newn)
    ELSE s

bubble(s) == bubble_while(s, Len(s))

\* Mutant of track_pivot: the pivot's index is not followed through a swap.
track_pivot_lost(p, l, h) == p

\* if lo == pivot { pivot = hi } else if hi == pivot { pivot = lo }
track_pivot(p, l, h) == IF l = p THEN h ELSE IF h = p THEN l ELSE p

\* Mutant of scan_lo: the scan also passes elements equal to the pivot.
RECURSIVE scan_lo_le(_, _, _)
scan_lo_le(s, l, p) ==
    IF l >= Len(s) THEN Len(s)
    ELSE IF Key(At(s, l)) <= Key(At(s, p)) THEN scan_lo_le(s, l + 1, p)
    ELSE l

\* while slice[lo] < slice[pivot] { lo += 1 }: the index the scan stops at;
\* Len(s) when the scan reads past the end of the slice.
RECURSIVE scan_lo(_, _, _)
scan_lo(s, l, p) ==
    IF l >= Len(s) THEN Len(s)
    ELSE IF Key(At(s, l)) < Key(At(s, p)) THEN scan_lo(s, l + 1, p)
    ELSE l

\* while hi > 0 && slice[hi] > slice[pivot] { hi -= 1 }
RECURSIVE scan_hi(_, _, _)
scan_hi(s, h, p) ==
    IF h > 0 /\ Key(At(s, h)) > Key(At(s, p)) THEN scan_hi(s, h - 1, p)
    ELSE h

\* The locals of quick_partition on entry (n - 1 underflows on an empty slice).
partition_enter(s) ==
    IF Len(s) = 0
    THEN [slice |-> s, lo |-> 0, hi |-> 0, pivot |-> 0, equal |-> FALSE,
          pc |-> "panic"]
    ELSE [slice |-> s, lo |-> 0, hi |-> Len(s) - 1, pivot |-> Len(s) - 1,
          equal |-> FALSE, pc |-> "loop"]

\* One iteration of quick_partition's outer loop.
partition_iter(st) ==
    LET s   == st.slice
        lo0 == IF st.equal THEN st.lo + 1 ELSE st.lo
        lo1 == IF lo0 >= Len(s) THEN Len(s) ELSE scan_lo(s, lo0, st.pivot)
    IN  IF lo1 >= Len(s)
        THEN [st EXCEPT !.lo = lo1, !.equal = FALSE, !.pc = "panic"]
        ELSE LET hi1 == scan_hi(s, st.hi, st.pivot) IN
             IF lo1 >= hi1
             THEN [st EXCEPT !.lo = lo1, !.hi = hi1, !.equal = FALSE,
                             !.pc = "break"]
             ELSE IF Key(At(s, lo1)) = Key(At(s, hi1))
             THEN [st EXCEPT !.lo = lo1, !.hi = hi1, !.equal = TRUE]
             ELSE [st EXCEPT !.lo = lo1, !.hi = hi1, !.equal = FALSE,
                             !.pivot = track_pivot(st.pivot, lo1, hi1),
                             !.slice = Swap(s, lo1, hi1)]

\* slice.swap(lo, pivot); lo
partition_return(st) ==
    [st EXCEPT !.slice = Swap(st.slice, st.lo, st.pivot), !.pc = "done"]

RECURSIVE partition_run(_)
partition_run(st) ==
    IF st.pc = "loop" THEN partition_run(partition_iter(st))
    ELSE IF st.pc = "break" THEN partition_return(st)
    ELSE st

\* quick_partition run to completion: the slice it leaves and the index it
\* returns, or a panic.
quick_partition(s) ==
    LET st == partition_run(partition_enter(s)) IN
    [panic |-> st.pc = "panic", slice |-> st.slice, partition |-> st.lo]

RECURSIVE quick(_)
quick(s) ==
    IF Len(s) > 1
    THEN LET r == quick_partition(s) IN
         IF r.panic THEN Panicked(r.slice)
         ELSE LET a == quick(Range(r.slice, 0, r.partition))
                  b == quick(Range(r.slice, r.partition + 1, Len(s)))
                  m == <<At(r.slice, r.partition)>>
              IN  [panic |-> a.panic \/ b.panic, slice |-> a.slice \o m \o b.slice]
    ELSE Ok(s)

\* slice[(mid + i)..].clone_from_slice(&left[i..]): panics unless both
\* slices have the same length.
clone_tail(s, left, mid, i) ==
    IF Len(s) - (mid + i) # Len(left) - i
    THEN Panicked(s)
    ELSE Ok(Range(s, 0, mid + i) \o Range(left, i, Len(left)))

\* The merge loop of merge, from cursors i (left buffer) and j (right half).
RECURSIVE merge_loop(_, _, _, _, _)
merge_loop(s, left, mid, i, j) ==
    LET midj == mid + j
        ij   == i + j
    IN  IF i = mid THEN Ok(s)
        ELSE IF midj = Len(s) THEN clone_tail(s, left, mid, i)
        ELSE LET c == cmp(Key(At(left, i)), Key(At(s, midj))) IN
             IF c = "Less"
             THEN merge_loop(Put(s, ij, At(left, i)), left, mid, i + 1, j)
             ELSE IF c = "Equal"
             THEN IF ij + 1 >= Len(s) THEN Panicked(s)
                  ELSE merge_loop(Put(Put(s, ij, At(left, i)), ij + 1, At(left, i)),
                                  left, mid, i + 1, j + 1)
             ELSE merge_loop(Put(s, ij, At(s, midj)), left, mid, i, j + 1)

RECURSIVE merge(_)
merge(s) ==
    IF Len(s) > 1
    THEN LET mid   == Len(s) \div 2
             left  == merge(Range(s, 0, mid))
             right == merge(Range(s, mid, Len(s)))
         IN  IF left.panic \/ right.panic
             THEN Panicked(left.slice \o right.slice)
             ELSE merge_loop(Range(s, 0, mid) \o right.slice, left.slice, mid, 0, 0)
    ELSE Ok(s)

-----------------------------------------------------------------------------
\* The sort functions, each called once on a slice of at most MaxLen
\* elements; quick_partition is also run one loop iteration at a time.

SortInputs ==
    UNION { [1..n -> Keys] : n \in 0..MaxLen }

\* The element at index i of the input carries its index.
Tagged(ks) == [i \in 1..Len(ks) |-> <<ks[i], i - 1>>]

Init ==
    /\ op = "none"
    /\ pc = "idle"
    /\ \E ks \in SortInputs : input = Tagged(ks)
    /\ slice = input
    /\ value = 0
    /\ step = 0
    /\ result = None
    /\ lo = 0 /\ hi = 0 /\ pivot = 0 /\ equal = FALSE /\ iters = 0
    /\ pos = 0 /\ found = FALSE /\ scan = FALSE

Finish(name, r) ==
    /\ op' = name
    /\ pc' = IF r.panic THEN "panic" ELSE "done"
    /\ slice' = r.slice
    /\ UNCHANGED <<input, value, step, result, lo, hi, pivot, equal, iters,
                   pos, found, scan>>

CallBubble ==
    /\ pc = "idle"
    /\ Finish("bubble", Ok(bubble(slice)))

CallQuick ==
    /\ pc = "idle"
    /\ Finish("quick", quick(slice))

CallMerge ==
    /\ pc = "idle"
    /\ Finish("merge", merge(slice))

PartitionState ==
    [slice |-> slice, lo |-> lo, hi |-> hi, pivot |-> pivot, equal |-> equal,
     pc |-> pc]

PartitionSet(st) ==
    /\ slice' = st.slice
    /\ lo' = st.lo
    /\ hi' = st.hi
    /\ pivot' = st.pivot
    /\ equal' = st.equal
    /\ pc' = st.pc

PartitionEnter ==
    /\ pc = "idle"
    /\ op' = "quick_partition"
    /\ PartitionSet(partition_enter(slice))
    /\ UNCHANGED <<input, value, step, result, iters, pos, found, scan>>

PartitionIterate ==
    /\ op = "quick_partition"
    /\ pc = "loop"
    /\ iters <= Len(slice) + 1
    /\ PartitionSet(partition_iter(PartitionState))
    /\ iters' = iters + 1
    /\ UNCHANGED <<op, input, value, step, result, pos, found, scan>>

PartitionReturn ==
    /\ op = "quick_partition"
    /\ pc = "break"
    /\ PartitionSet(partition_return(PartitionState))
    /\ result' = Some(lo)
    /\ UNCHANGED <<op, input, value, step, iters, pos, found, scan>>

Next ==
    \/ CallBubble
    \/ CallQuick
    \/ CallMerge
    \/ PartitionEnter
    \/ PartitionIterate
    \/ PartitionReturn

Spec == Init /\ [][Next]_vars

-----------------------------------------------------------------------------
\* search.rs

RECURSIVE linear_from(_, _, _)
linear_from(s, v, i) ==
    IF i >= Len(s) THEN None
    ELSE IF v = At(s, i) THEN Some(i)
    ELSE linear_from(s, v, i + 1)

linear(s, v) == linear_from(s, v, 0)

\* Mutant of Shift: the offset of the sub-slice is not added back.
Shift_lost(r, d) == r

\* Some(x) => Some(x + d); None and the panic pass through.
Shift(r, d) == IF r.tag = "Some" THEN Some(r.idx + d) ELSE r

RECURSIVE binary(_, _)
binary(s, v) ==
    LET mid == Len(s) \div 2 IN
    IF mid >= Len(s) THEN Panic
    ELSE LET c == cmp(v, At(s, mid)) IN
         IF c = "Less" /\ mid > 0 THEN binary(Range(s, 0, mid), v)
         ELSE IF c = "Equal" THEN Some(mid)
         ELSE IF c = "Greater" /\ mid < Len(s) - 1
         THEN Shift(binary(Range(s, mid + 1, Len(s)), v), mid + 1)
         ELSE None

\* for (i, v) in slice[0..pos].iter().enumerate().rev(), from index i down
RECURSIVE first_from(_, _, _)
first_from(s, v, i) ==
    IF i < 0 THEN Some(0)
    ELSE IF At(s, i) < v THEN Some(i + 1)
    ELSE first_from(s, v, i - 1)

\* Mutant of binary_first: the walk back to the first occurrence is left out.
binary_first_no_walk(s, v) == binary(s, v)

binary_first(s, v) ==
    LET r == binary(s, v) IN
    IF r.tag = "Some" THEN first_from(s, v, r.idx - 1) ELSE r

\* What jump_step's for loop leaves: exit is "return" (ret is returned),
\* "panic" (an unwrap of None) or "scan" (the final linear scan follows,
\* with pos and found as left by the loop).
JumpExit(exit, ret, p, f) ==
    [exit |-> exit, ret |-> ret, pos |-> p, found |-> f]

\* for i in 0..(slice.len() / step), with it the number of elements the
\* iterator has yielded so far.
RECURSIVE jump_loop(_, _, _, _, _, _)
jump_loop(s, v, st, i, it, p) ==
    IF i >= Len(s) \div st THEN JumpExit("scan", None, p, FALSE)
    ELSE IF it >= Len(s) THEN JumpExit("panic", Panic, p, FALSE)
    ELSE LET c == cmp(v, At(s, it)) IN
         IF c = "Less"
         THEN IF i = 0 THEN JumpExit("return", None, p, FALSE)
              ELSE JumpExit("scan", None, p, TRUE)
         ELSE IF c = "Equal" THEN JumpExit("return", Some(i * st), p, FALSE)
         ELSE IF i >= Len(s) THEN JumpExit("return", None, i * st, FALSE)
         ELSE IF it + 1 + (st - 2) >= Len(s)
              THEN JumpExit("panic", Panic, i * st, FALSE)
              ELSE jump_loop(s, v, st, i + 1, it + st, i * st)

\* Mutant of scan_end: the scan always ends one step after pos.
scan_end_block(s, l, st) == l.pos + st

\* let mut end = pos + step; if !found { end = slice.len() }
scan_end(s, l, st) == IF l.found THEN l.pos + st ELSE Len(s)

\* jump_step with its locals at the point it returns or panics.
jump_step_run(s, v, st) ==
    IF st = 1 THEN JumpExit("return", linear(s, v), 0, FALSE)
    ELSE IF st = 0
    THEN IF Len(s) = 0 THEN JumpExit("panic", Panic, 0, FALSE)
         ELSE IF At(s, 0) = v THEN JumpExit("return", Some(0), 0, FALSE)
         ELSE JumpExit("return", None, 0, FALSE)
    ELSE LET l == jump_loop(s, v, st, 0, 0, 0) IN
         IF l.exit # "scan" THEN l
         ELSE LET end == scan_end(s, l, st) IN
              IF ~RangeOk(s, l.pos + 1, end)
              THEN JumpExit("panic", Panic, l.pos, l.found)
              ELSE JumpExit("scan",
                            Shift(linear(Range(s, l.pos + 1, end), v), l.pos + 1),
                            l.pos, l.found)

jump_step(s, v, st) == jump_step_run(s, v, st).ret

\* (slice.len() as f64).sqrt() as usize
sqrt_floor(n) == CHOOSE r \in 0..n : r * r <= n /\ (r + 1) * (r + 1) > n

jump(s, v) == jump_step(s, v, sqrt_floor(Len(s)))

-----------------------------------------------------------------------------
\* The search functions, each called once on an ascending slice of at most
\* MaxSearchLen integers.

\* The ascending sequences of length n over 1..k.
RECURSIVE AscendingSeqs(_, _)
AscendingSeqs(n, k) ==
    IF n = 0 THEN {<<>>}
    ELSE UNION { {Append(s, x) : s \in AscendingSeqs(n - 1, x)} : x \in 1..k }

SearchInputs == UNION { AscendingSeqs(n, MaxKey) : n \in 0..MaxSearchLen }

SearchValues == 0..(MaxKey + 1)

Steps == 0..(MaxSearchLen + 1)

InitSearch ==
    /\ op = "none"
    /\ pc = "idle"
    /\ input \in SearchInputs
    /\ slice = input
    /\ value \in SearchValues
    /\ step = 0
    /\ result = None
    /\ pos = 0 /\ found = FALSE /\ scan = FALSE
    /\ lo = 0 /\ hi = 0 /\ pivot = 0 /\ equal = FALSE /\ iters = 0

Return(name, r) ==
    /\ op' = name
    /\ pc' = IF r.tag = "Panic" THEN "panic" ELSE "done"
    /\ result' = r
    /\ UNCHANGED <<input, slice, value, lo, hi, pivot, equal, iters>>

CallLinear ==
    /\ pc = "idle"
    /\ Return("linear", linear(slice, value))
    /\ UNCHANGED <<step, pos, found, scan>>

CallBinary ==
    /\ pc = "idle"
    /\ Return("binary", binary(slice, value))
    /\ UNCHANGED <<step, pos, found, scan>>

CallBinaryFirst ==
    /\ pc = "idle"
    /\ Return("binary_first", binary_first(slice, value))
    /\ UNCHANGED <<step, pos, found, scan>>

CallJumpStep ==
    /\ pc = "idle"
    /\ \E st \in Steps :
         LET r == jump_step_run(slice, value, st) IN
         /\ step' = st
         /\ Return("jump_step", r.ret)
         /\ pos' = r.pos
         /\ found' = r.found
         /\ scan' = (r.exit = "scan")

CallJump ==
    /\ pc = "idle"
    /\ step' = sqrt_floor(Len(slice))
    /\ Return("jump", jump(slice, value))
    /\ UNCHANGED <<pos, found, scan>>

NextSearch ==
    \/ CallLinear
    \/ CallBinary
    \/ CallBinaryFirst
    \/ CallJumpStep
    \/ CallJump

SpecSearch == InitSearch /\ [][NextSearch]_vars

-----------------------------------------------------------------------------
\* Vocabulary of the properties.

\* Every consecutive pair of keys is non-decreasing.
AscendingKeys(s) == \A i \in 1..(Len(s) - 1) : Key(s[i]) <= Key(s[i + 1])

KeyCount(s, k) == Cardinality({i \in 1..Len(s) : Key(s[i]) = k})

\* The same multiset of keys.
SameKeys(a, b) ==
    Len(a) = Len(b) /\ \A k \in Keys : KeyCount(a, k) = KeyCount(b, k)

\* b holds exactly the elements of a, each once (the elements of an input
\* are pairwise distinct: each carries its index).
IsPermutation(a, b) ==
    Len(a) = Len(b) /\ {a[i] : i \in 1..Len(a)} = {b[i] : i \in 1..Len(b)}

\* Elements with equal keys are in the order of their original indices.
Stable(s) ==
    \A i, j \in 1..Len(s) :
        (i < j /\ Key(s[i]) = Key(s[j])) => s[i][2] < s[j][2]

HasEqualKeys(s) == \E i, j \in 1..Len(s) : i < j /\ Key(s[i]) = Key(s[j])

\* The function name was called and has returned or panicked.
Returned(name) == op = name /\ pc \in {"done", "panic"}

Occurs(s, v) == \E i \in 1..Len(s) : s[i] = v

\* result is Some(i) with i < len and input[i] == value.
ValidIndex(r) == r.tag = "Some" /\ r.idx < Len(input) /\ At(input, r.idx) = value

\* The call returned a matching index when value occurs, None when it does not.
Verdict ==
    /\ pc = "done"
    /\ Occurs(input, value) => ValidIndex(result)
    /\ ~Occurs(input, value) => result = None

-----------------------------------------------------------------------------
\* C1: merge completes without failure on every slice and leaves it in
\* non-decreasing key order with the multiset of keys of its input.
C1_MergeSorts ==
    Returned("merge") =>
        pc = "done" /\ AscendingKeys(slice) /\ SameKeys(input, slice)

\* C2: quick returns without failure on every slice and leaves it sorted
\* (is_sorted holds, every consecutive pair non-decreasing) as a rearrangement
\* of its input (the same elements, hence the same multiset of keys).
C2_QuickSorts ==
    Returned("quick") =>
        /\ pc = "done"
        /\ is_sorted(slice)
        /\ AscendingKeys(slice)
        /\ SameKeys(input, slice)
        /\ IsPermutation(input, slice)

\* quick has sorted a slice of three or more elements that was out of order
\* and holds duplicate keys.
C2_Witness ==
    /\ op = "quick" /\ pc = "done"
    /\ Len(input) >= 3
    /\ ~AscendingKeys(input)
    /\ HasEqualKeys(input)
    /\ AscendingKeys(slice)

\* C3: when merge returns, the slice holds exactly the input pairs, each
\* once, and pairs with equal keys are in their input order.
C3_MergeStable ==
    (op = "merge" /\ pc = "done") =>
        IsPermutation(input, slice) /\ Stable(slice)

\* C8: bubble returns on every slice and leaves the stable ascending sort of
\* its input: the input's elements, keys non-decreasing, equal keys in input
\* order; a slice of length 0 or 1 is unchanged.
C8_BubbleStableSort ==
    Returned("bubble") =>
        /\ pc = "done"
        /\ is_sorted(slice)
        /\ AscendingKeys(slice)
        /\ IsPermutation(input, slice)
        /\ Stable(slice)
        /\ (Len(input) <= 1 => slice = input)

\* bubble has reordered a slice that holds duplicate keys.
C8_Witness ==
    /\ op = "bubble" /\ pc = "done"
    /\ Len(input) >= 3
    /\ HasEqualKeys(input)
    /\ slice # input

\* C9: on a non-empty slice quick_partition never indexes outside
\* 0..len-1 (no panic; lo, hi and pivot stay below len), starts at most len
\* loop iterations, holds the entry's last element at slice[pivot] at every
\* loop iteration, and returns p < len with the slice a permutation of the
\* input, slice[p] that element, keys before p <= its key and keys after p >=
\* its key.
C9_PartitionCorrect ==
    (op = "quick_partition" /\ Len(input) > 0) =>
        /\ pc # "panic"
        /\ iters <= Len(input)
        /\ lo < Len(slice) /\ hi < Len(slice) /\ pivot < Len(slice)
        /\ pc \in {"loop", "break"} =>
              /\ At(slice, pivot) = At(input, Len(input) - 1)
              /\ (pc = "loop" => iters < Len(input))
        /\ pc = "done" =>
              /\ result.tag = "Some" /\ result.idx < Len(slice)
              /\ IsPermutation(input, slice)
              /\ At(slice, result.idx) = At(input, Len(input) - 1)
              /\ \A i \in 0..(Len(slice) - 1) :
                    /\ i < result.idx =>
                          Key(At(slice, i)) <= Key(At(slice, result.idx))
                    /\ i > result.idx =>
                          Key(At(slice, i)) >= Key(At(slice, result.idx))

\* quick_partition has returned an inner index after moving the pivot's
\* index during the loop.
C9_Witness ==
    /\ op = "quick_partition" /\ pc = "done"
    /\ iters >= 3
    /\ pivot # Len(input) - 1
    /\ 0 < result.idx /\ result.idx < Len(input) - 1
    /\ HasEqualKeys(input)

\* C4: on an empty slice every search function returns None, without failing.
C4_EmptySearchIsNone ==
    (Len(input) = 0
       /\ op \in {"linear", "binary", "binary_first", "jump_step", "jump"}) =>
        pc = "done" /\ result = None

\* C5: on a non-empty ascending slice binary returns some index holding value
\* when value occurs and None when it does not: the verdict of linear.
C5_BinaryVerdict ==
    (op = "binary" /\ Len(input) > 0) =>
        Verdict /\ result.tag = linear(input, value).tag

\* binary has returned an occurrence of value that is not the first one.
C5_Witness ==
    /\ op = "binary" /\ pc = "done"
    /\ result.tag = "Some"
    /\ result.idx > 0
    /\ At(input, result.idx - 1) = value

\* C6: on a non-empty ascending slice binary_first returns the smallest index
\* holding value, the index linear returns, and None when value does not
\* occur.
C6_BinaryFirstIsFirst ==
    (op = "binary_first" /\ Len(input) > 0) =>
        /\ Verdict
        /\ result = linear(input, value)
        /\ Occurs(input, value) =>
              \A i \in 0..(result.idx - 1) : At(input, i) # value

\* binary_first has walked a run of duplicates back to index 0.
C6_Witness ==
    /\ op = "binary_first" /\ pc = "done"
    /\ result = Some(0)
    /\ binary(input, value).idx >= 2

\* C7: on a non-empty ascending slice jump returns without failure, with an
\* index holding value exactly when value occurs: the verdict of linear.
C7_JumpVerdict ==
    (op = "jump" /\ Len(input) > 0) =>
        /\ step = sqrt_floor(Len(input))
        /\ Verdict
        /\ result.tag = linear(input, value).tag

\* jump, with a step of 3, has found value inside a block, by its final scan.
C7_Witness ==
    /\ op = "jump" /\ pc = "done"
    /\ step = 3
    /\ result.tag = "Some"
    /\ result.idx % 3 # 0

\* C10: in jump_step on a non-empty ascending slice with any step >= 2, the
\* element at pos that the final scan skips is not equal to value, and
\* jump_step returns an index holding value whenever value occurs.
C10_JumpStepSkipsChecked ==
    (op = "jump_step" /\ Len(input) > 0 /\ step >= 2) =>
        /\ scan => At(input, pos) # value
        /\ Occurs(input, value) => ValidIndex(result)

====
